---- MODULE Spec2Model ----
(***************************************************************************)
(* Model of flatland/input/model_visitor.py: SubsystemVisitor, the         *)
(* bottom-up reducers that turn the parse tree of a class-model text into  *)
(* dictionaries and lists.                                                  *)
(*                                                                         *)
(* Python values whose type the code inspects or relies on are tagged      *)
(* records [t |-> type, v |-> payload]:                                    *)
(*   str    v = the sequence of its characters                             *)
(*   list   v = the sequence of its elements                               *)
(*   tuple  v = the sequence of its elements                               *)
(*   dict   v = a function from keys to values                             *)
(*   none   v = <<>>                                                       *)
(*   raise  v = the name of the exception that left the reducer            *)
(* Dictionary keys and fact keys that are literals of the source           *)
(* ('name', 'rnum', 'attributes', ...) are TLA+ strings; text that comes   *)
(* from the parsed input is a str value.                                   *)
(***************************************************************************)
EXTENDS Integers, Sequences, FiniteSets, TLC

VARIABLES
    attr_children,   \* children handed to visit_attr for the current attribute line
    attr_result,     \* what visit_attr returned for attr_children, PyNone before the call
    class_header,    \* result of visit_class_header for the current class, or PyNone
    lines,           \* the children of each attr node of the current class, in order
    block_children,  \* the visit_attr results handed to visit_attr_block
    attr_block,      \* result of visit_attr_block, or PyNone
    method_block,    \* result of visit_method_block, or PyNone
    class_block,     \* result of visit_class_block, or PyNone
    rname_children,  \* children handed to visit_rname for the current relationship
    rname_result,    \* result of visit_rname, or PyNone
    side_children,   \* rule name -> children handed to visit_t_side / visit_p_side
    shape_children,  \* reduced children of the binary_rel or gen_rel node, with their rules
    shape_result,    \* result of visit_binary_rel or visit_gen_rel, or PyNone
    rel_result,      \* result of visit_rel, or PyNone
    item_name,       \* result of visit_item_name for the current metadata line, or PyNone
    item,            \* the reduced value of the current metadata line with its rule, or PyNone
    meta_lines,      \* the children of each data_item node, with their rules
    meta_children,   \* the visit_data_item results handed to visit_metadata
    metadata,        \* result of visit_metadata, or PyNone
    relrnum_children,\* children handed to visit_relrnum for the current navigation
    relrnum_result,  \* the list object visit_relrnum returned, or PyNone
    nav_targets,     \* the children of the navigation node besides the relrnum child
    nav_result,      \* what visit_navigation returned, or PyNone
    pass_tree,       \* the parse tree (its leaves) that is compiled twice, or PyNone
    pass_no,         \* 0 before the first compilation, then 1 or 2
    pass_stage,      \* the node the current compilation reduces next
    pass_results,    \* per compilation, the results of the nodes reduced so far
    header_children, \* the reduced children of the subsystem_header node, with their rules
    subsys_header    \* result of visit_subsystem_header, or PyNone

attr_vars == <<attr_children, attr_result>>
class_vars == <<class_header, lines, block_children, attr_block, method_block, class_block>>
rel_vars == <<rname_children, rname_result, side_children, shape_children, shape_result,
              rel_result>>
meta_vars == <<item_name, item, meta_lines, meta_children, metadata>>
nav_vars == <<relrnum_children, relrnum_result, nav_targets, nav_result>>
pass_vars == <<pass_tree, pass_no, pass_stage, pass_results>>
header_vars == <<header_children, subsys_header>>
vars == <<attr_vars, class_vars, rel_vars, meta_vars, nav_vars, pass_vars, header_vars>>

\* what the reducers of one part of the tree leave alone
not_attr == <<class_vars, rel_vars, meta_vars, nav_vars, pass_vars, header_vars>>
not_class == <<attr_vars, rel_vars, meta_vars, nav_vars, pass_vars, header_vars>>
not_rel == <<attr_vars, class_vars, meta_vars, nav_vars, pass_vars, header_vars>>
not_meta == <<attr_vars, class_vars, rel_vars, nav_vars, pass_vars, header_vars>>
not_nav == <<attr_vars, class_vars, rel_vars, meta_vars, pass_vars, header_vars>>
not_header == <<attr_vars, class_vars, rel_vars, meta_vars, nav_vars, pass_vars>>

(***************************************************************************)
(* Bounds of the model                                                     *)
(***************************************************************************)
MaxChildren == 3     \* children of one attribute line
MaxLines == 3        \* attribute lines of one class
MaxSubclasses == 3   \* subclasses of one generalization
MaxPairs == 3        \* lines of one metadata section

(***************************************************************************)
(* Python values                                                           *)
(***************************************************************************)
PyStr(s) == [t |-> "str", v |-> s]
PyList(l) == [t |-> "list", v |-> l]
PyTuple(l) == [t |-> "tuple", v |-> l]
PyDict(f) == [t |-> "dict", v |-> f]
PyNone == [t |-> "none", v |-> <<>>]
PyRaise(e) == [t |-> "raise", v |-> e]

EmptyDict == [k \in {} |-> PyNone]

\* d[key] = value on a dict payload
DictSet(f, key, value) ==
    [k \in DOMAIN f \cup {key} |-> IF k = key THEN value ELSE f[k]]

\* {**a, **b} and a | b on dict payloads: the right operand wins a shared key
DictUnion(a, b) ==
    [k \in DOMAIN a \cup DOMAIN b |-> IF k \in DOMAIN b THEN b[k] ELSE a[k]]

\* x in l for a list or tuple payload l (element equality)
InSeq(x, l) == \E i \in 1..Len(l) : l[i] = x

\* a in b for two character sequences (substring test)
SubStr(a, b) ==
    \E i \in 0..(Len(b) - Len(a)) :
        \A j \in 1..Len(a) : b[i + j] = a[j]

\* ''.join(children): the fragments' characters in encounter order, no separator
RECURSIVE JoinChars(_)
JoinChars(frags) ==
    IF frags = <<>> THEN <<>>
    ELSE frags[1].v \o JoinChars(Tail(frags))

Join(children) == PyStr(JoinChars(children))

(***************************************************************************)
(* Text of the modelled inputs                                             *)
(***************************************************************************)
NameWord == <<"n", "a", "m", "e">>          \* the key 'name' as characters
sId == PyStr(<<"I", "d">>)
sTemp == PyStr(<<"T", "e", "m", "p">>)
sTe == PyStr(<<"T", "e">>)
sMp == PyStr(<<"m", "p">>)
sInt == PyStr(<<"i", "n", "t">>)
sI == PyStr(<<"I">>)
sI2 == PyStr(<<"I", "2">>)
sC == PyStr(<<"c">>)
sBang == PyStr(<<"!">>)
sR1 == PyStr(<<"R", "1">>)
sR2 == PyStr(<<"R", "2">>)
sOwner == PyStr(<<"O", "w", "n", "e", "r">>)
sOwns == PyStr(<<"o", "w", "n", "s">>)

(***************************************************************************)
(* Attribute-level reducers                                                *)
(***************************************************************************)
visit_attr_name(children) == PyTuple(<<"name", Join(children)>>)

visit_attr_ref_name(children) == Join(children)

visit_type_name(children) == PyTuple(<<"type", Join(children)>>)

visit_ignore(children) == PyTuple(<<"ignore", sBang>>)

\* visit_id using the key of the attribute's name for its list fact
IdKeyedName(children) ==
    LET _id == children[1]
        out == <<PyTuple(<<"name", _id, TRUE>>)>>
    IN  PyList(IF Len(children) = 2
               THEN Append(out, PyTuple(<<"constrained_id", _id, TRUE>>))
               ELSE out)

\* visit_id giving a constrained identifier the 'constrained_id' fact alone
IdConstrainedOnly(children) ==
    LET _id == children[1]
    IN  PyList(IF Len(children) = 2
               THEN <<PyTuple(<<"constrained_id", _id, TRUE>>)>>
               ELSE <<PyTuple(<<"id", _id, TRUE>>)>>)

visit_id(children) ==
    LET _id == children[1]
        out == <<PyTuple(<<"id", _id, TRUE>>)>>
    IN  PyList(IF Len(children) = 2
               THEN Append(out, PyTuple(<<"constrained_id", _id, TRUE>>))
               ELSE out)

(***************************************************************************)
(* Children of a node: one entry per reduced child, in encounter order,    *)
(* each with the rule that produced it (children and children.results).   *)
(***************************************************************************)
Child(rule, val) == [rule |-> rule, val |-> val]

\* rule in children.results
HasRule(children, rule) == \E i \in 1..Len(children) : children[i].rule = rule

\* children.results[rule]: the results of that rule, in encounter order
RuleResults(children, rule) ==
    LET sel == SelectSeq(children, LAMBDA c : c.rule = rule)
    IN  [i \in 1..Len(sel) |-> sel[i].val]

\* the positional view of children: the results alone
Values(children) == [i \in 1..Len(children) |-> children[i].val]

(***************************************************************************)
(* Navigation reducers                                                     *)
(***************************************************************************)
visit_class_name(children) == PyDict([k \in {"name"} |-> Join(children)])

visit_phrase(children) == Join(children)

\* visit_relrnum with one test for both markers: a union marker also gives the
\* constrained fact
RelrnumMarkersTied(children) ==
    IF ~HasRule(children, "rnum") THEN PyRaise("KeyError")
    ELSE
    LET rnum == RuleResults(children, "rnum")[1]
        o1 == <<PyTuple(<<"rnum", rnum, TRUE>>)>>
        o2 == IF HasRule(children, "union")
              THEN Append(o1, PyTuple(<<"union_rnum", rnum, TRUE>>)) ELSE o1
        o3 == IF HasRule(children, "union") \/ HasRule(children, "constrained")
              THEN Append(o2, PyTuple(<<"constrained_rnum", rnum, TRUE>>)) ELSE o2
        o4 == IF HasRule(children, "attr_ref_name")
              THEN Append(o3, PyTuple(<<"ref_name",
                       PyTuple(<<rnum, RuleResults(children, "attr_ref_name")[1]>>),
                       TRUE>>))
              ELSE o3
    IN  PyList(o4)

\* visit_relrnum building on one list shared by all calls instead of a new list
RelrnumSharedList(children) ==
    IF ~HasRule(children, "rnum") THEN PyRaise("KeyError")
    ELSE
    LET rnum == RuleResults(children, "rnum")[1]
        o0 == IF relrnum_result.t = "list" THEN relrnum_result.v ELSE <<>>
        o1 == Append(o0, PyTuple(<<"rnum", rnum, TRUE>>))
        o2 == IF HasRule(children, "union")
              THEN Append(o1, PyTuple(<<"union_rnum", rnum, TRUE>>)) ELSE o1
        o3 == IF HasRule(children, "constrained")
              THEN Append(o2, PyTuple(<<"constrained_rnum", rnum, TRUE>>)) ELSE o2
        o4 == IF HasRule(children, "attr_ref_name")
              THEN Append(o3, PyTuple(<<"ref_name",
                       PyTuple(<<rnum, RuleResults(children, "attr_ref_name")[1]>>),
                       TRUE>>))
              ELSE o3
    IN  PyList(o4)

visit_relrnum(children) ==
    IF ~HasRule(children, "rnum") THEN PyRaise("KeyError")
    ELSE
    LET rnum == RuleResults(children, "rnum")[1]
        o1 == <<PyTuple(<<"rnum", rnum, TRUE>>)>>
        o2 == IF HasRule(children, "union")
              THEN Append(o1, PyTuple(<<"union_rnum", rnum, TRUE>>)) ELSE o1
        o3 == IF HasRule(children, "constrained")
              THEN Append(o2, PyTuple(<<"constrained_rnum", rnum, TRUE>>)) ELSE o2
        o4 == IF HasRule(children, "attr_ref_name")
              THEN Append(o3, PyTuple(<<"ref_name",
                       PyTuple(<<rnum, RuleResults(children, "attr_ref_name")[1]>>),
                       TRUE>>))
              ELSE o3
    IN  PyList(o4)

\* the first loop of visit_navigation: nav_data after the first 'rnum' fact of out
\* NavRnum taking the data of the last fact of the relrnum list
NavRnumLastFact(out) ==
    IF out = <<>> THEN EmptyDict
    ELSE [k \in {"rnum"} |-> out[Len(out)].v[2]]

RECURSIVE NavRnum(_)
NavRnum(out) ==
    IF out = <<>> THEN EmptyDict
    ELSE IF out[1].v[1] = "rnum" THEN [k \in {"rnum"} |-> out[1].v[2]]
    ELSE NavRnum(Tail(out))

\* 'name' in data
ContainsName(data) ==
    CASE data.t = "dict" -> "name" \in DOMAIN data.v
      [] data.t = "str" -> SubStr(NameWord, data.v)
      [] OTHER -> InSeq(PyStr(NameWord), data.v)

\* data['name'] if 'name' in data else data
NavTargetValue(data) ==
    IF ContainsName(data)
    THEN (IF data.t = "dict" THEN data.v["name"] ELSE PyRaise("TypeError"))
    ELSE data

\* NavPairs with the record keys of the class and the attribute reference exchanged
NavPairsMixed == << <<"phrase", "phrase">>, <<"class_name", "ref_name">>,
                    <<"attr_ref_name", "class">> >>

NavPairs == << <<"phrase", "phrase">>, <<"class_name", "class">>,
               <<"attr_ref_name", "ref_name">> >>

\* NavTargets leaving the loop at the first target fact found
RECURSIVE NavTargetsFirstOnly(_, _, _)
NavTargetsFirstOnly(children, nav, i) ==
    IF i > Len(NavPairs) THEN PyDict(nav)
    ELSE IF ~HasRule(children, NavPairs[i][1])
         THEN NavTargetsFirstOnly(children, nav, i + 1)
    ELSE LET val == NavTargetValue(RuleResults(children, NavPairs[i][1])[1])
         IN  IF val.t = "raise" THEN val
             ELSE PyDict(DictSet(nav, NavPairs[i][2], val))

\* the second loop of visit_navigation, from pair i on; nav is the dict payload
\* so far, and the result is the dict or a raise
RECURSIVE NavTargets(_, _, _)
NavTargets(children, nav, i) ==
    IF i > Len(NavPairs) THEN PyDict(nav)
    ELSE IF ~HasRule(children, NavPairs[i][1]) THEN NavTargets(children, nav, i + 1)
    ELSE LET val == NavTargetValue(RuleResults(children, NavPairs[i][1])[1])
         IN  IF val.t = "raise" THEN val
             ELSE NavTargets(children, DictSet(nav, NavPairs[i][2], val), i + 1)

\* The list returned is the relrnum child's own list object with the nav_rnum
\* fact appended to it.
visit_navigation(children) ==
    IF ~HasRule(children, "relrnum") THEN PyRaise("KeyError")
    ELSE
    LET out == RuleResults(children, "relrnum")[1]
        nav_data == NavTargets(children, NavRnum(out.v), 1)
    IN  IF nav_data.t = "raise" THEN nav_data
        ELSE PyList(Append(out.v, PyTuple(<<"nav_rnum", nav_data, TRUE>>)))

(***************************************************************************)
(* visit_attr                                                              *)
(***************************************************************************)
\* data_list: list children are spliced in, every other child is one item
RECURSIVE DataList(_)
DataList(children) ==
    IF children = <<>> THEN <<>>
    ELSE (IF children[1].t = "list" THEN children[1].v ELSE <<children[1]>>)
         \o DataList(Tail(children))

\* if value not in out[key]: out[key].append(value)   -- cur is out[key]
ListAdd(cur, value) ==
    CASE cur.t = "list" ->
            IF InSeq(value, cur.v) THEN cur ELSE PyList(Append(cur.v, value))
      [] cur.t = "str" ->
            IF value.t # "str" THEN PyRaise("TypeError")
            ELSE IF SubStr(value.v, cur.v) THEN cur
            ELSE PyRaise("AttributeError")
      [] cur.t = "tuple" ->
            IF InSeq(value, cur.v) THEN cur ELSE PyRaise("AttributeError")
      [] OTHER -> PyRaise("TypeError")

\* AttrStep without the membership test: every list fact is appended
AttrStepNoDedup(st, data) ==
    IF st.err.t # "none" THEN st
    ELSE IF Len(data.v) < 2 THEN [st EXCEPT !.err = PyRaise("ValueError")]
    ELSE
    LET key == data.v[1]
        value == data.v[2]
        pack == SubSeq(data.v, 3, Len(data.v))
    IN  IF pack = <<>>
        THEN IF key = "ignore"
             THEN [st EXCEPT !.category = "ignore attributes"]
             ELSE [st EXCEPT !.out = DictSet(st.out, key, value)]
        ELSE LET cur == IF key \in DOMAIN st.out THEN st.out[key] ELSE PyList(<<>>)
             IN  [st EXCEPT !.out = DictSet(st.out, key, PyList(Append(cur.v, value)))]

\* AttrStep noticing the ignore marker only as the first fact; later it is
\* stored like any scalar
AttrStepIgnoreFirst(st, data) ==
    IF st.err.t # "none" THEN st
    ELSE IF Len(data.v) < 2 THEN [st EXCEPT !.err = PyRaise("ValueError")]
    ELSE
    LET key == data.v[1]
        value == data.v[2]
        pack == SubSeq(data.v, 3, Len(data.v))
    IN  IF pack = <<>>
        THEN IF key = "ignore" /\ st.out = EmptyDict
             THEN [st EXCEPT !.category = "ignore attributes"]
             ELSE [st EXCEPT !.out = DictSet(st.out, key, value)]
        ELSE LET cur == IF key \in DOMAIN st.out THEN st.out[key] ELSE PyList(<<>>)
                 new == ListAdd(cur, value)
             IN  IF new.t = "raise" THEN [st EXCEPT !.err = new]
                 ELSE [st EXCEPT !.out = DictSet(st.out, key, new)]

\* AttrStep keeping the first value of a scalar field instead of overwriting it
AttrStepFirstWins(st, data) ==
    IF st.err.t # "none" THEN st
    ELSE IF Len(data.v) < 2 THEN [st EXCEPT !.err = PyRaise("ValueError")]
    ELSE
    LET key == data.v[1]
        value == data.v[2]
        pack == SubSeq(data.v, 3, Len(data.v))
    IN  IF pack = <<>>
        THEN IF key = "ignore"
             THEN [st EXCEPT !.category = "ignore attributes"]
             ELSE IF key \in DOMAIN st.out THEN st
             ELSE [st EXCEPT !.out = DictSet(st.out, key, value)]
        ELSE LET cur == IF key \in DOMAIN st.out THEN st.out[key] ELSE PyList(<<>>)
                 new == ListAdd(cur, value)
             IN  IF new.t = "raise" THEN [st EXCEPT !.err = new]
                 ELSE [st EXCEPT !.out = DictSet(st.out, key, new)]

\* AttrStep deciding by the value of the third element instead of its presence
AttrStepByFlag(st, data) ==
    IF st.err.t # "none" THEN st
    ELSE IF Len(data.v) < 2 THEN [st EXCEPT !.err = PyRaise("ValueError")]
    ELSE
    LET key == data.v[1]
        value == data.v[2]
        pack == SubSeq(data.v, 3, Len(data.v))
    IN  IF pack = <<>> \/ pack[1] = FALSE
        THEN IF key = "ignore"
             THEN [st EXCEPT !.category = "ignore attributes"]
             ELSE [st EXCEPT !.out = DictSet(st.out, key, value)]
        ELSE LET cur == IF key \in DOMAIN st.out THEN st.out[key] ELSE PyList(<<>>)
                 new == ListAdd(cur, value)
             IN  IF new.t = "raise" THEN [st EXCEPT !.err = new]
                 ELSE [st EXCEPT !.out = DictSet(st.out, key, new)]

\* One pass of the loop body over one item of data_list.
\* st = [category, out (dict payload), err (PyNone or a raise)]
AttrStep(st, data) ==
    IF st.err.t # "none" THEN st
    ELSE IF Len(data.v) < 2 THEN [st EXCEPT !.err = PyRaise("ValueError")]
    ELSE
    LET key == data.v[1]
        value == data.v[2]
        pack == SubSeq(data.v, 3, Len(data.v))
    IN  IF pack = <<>>
        THEN IF key = "ignore"
             THEN [st EXCEPT !.category = "ignore attributes"]
             ELSE [st EXCEPT !.out = DictSet(st.out, key, value)]
        ELSE LET cur == IF key \in DOMAIN st.out THEN st.out[key] ELSE PyList(<<>>)
                 new == ListAdd(cur, value)
             IN  IF new.t = "raise" THEN [st EXCEPT !.err = new]
                 ELSE [st EXCEPT !.out = DictSet(st.out, key, new)]

RECURSIVE AttrLoop(_, _)
AttrLoop(st, data_list) ==
    IF data_list = <<>> THEN st
    ELSE AttrLoop(AttrStep(st, data_list[1]), Tail(data_list))

visit_attr(children) ==
    LET st == AttrLoop([category |-> "attributes", out |-> EmptyDict, err |-> PyNone],
                       DataList(children))
    IN  IF st.err.t # "none" THEN st.err
        ELSE PyTuple(<<st.category, PyDict(st.out)>>)

(***************************************************************************)
(* Inputs of the attribute-level reducers                                  *)
(***************************************************************************)
NameFrags == { <<sId>>, <<sTe, sMp>> }
TypeFrags == { <<sInt>> }
IdKids == { <<sI>>, <<sI, sC>>, <<sI2>>, <<sI2, sC>> }

\* children of a relrnum node
RelKids(rnum, union, constrained, ref) ==
    <<Child("rnum", rnum)>>
    \o (IF union THEN <<Child("union", sBang)>> ELSE <<>>)
    \o (IF constrained THEN <<Child("constrained", sC)>> ELSE <<>>)
    \o (IF ref THEN <<Child("attr_ref_name", visit_attr_ref_name(<<sId>>))>> ELSE <<>>)

\* navigation nodes of an attribute line: the relrnum children and the target child
AttrNavs ==
    { [rel |-> RelKids(sR1, u, c, FALSE),
       target |-> <<Child("phrase", visit_phrase(<<sOwns>>))>>] : u, c \in BOOLEAN }
    \cup { [rel |-> RelKids(sR2, FALSE, FALSE, FALSE),
            target |-> <<Child("class_name", visit_class_name(<<sOwner>>))>>],
           [rel |-> RelKids(sR1, FALSE, FALSE, TRUE),
            target |-> <<Child("attr_ref_name", visit_attr_ref_name(<<sId>>))>>] }

(***************************************************************************)
(* One attribute line: the leaf reducers hand their results to the attr    *)
(* node, visit_attr reduces them.  A leaf reduced after visit_attr starts  *)
(* the next attribute line.                                                *)
(***************************************************************************)
\* a further child fits the current line, or the line is reduced and a new one starts
CanAddChild == attr_result # PyNone \/ Len(attr_children) < MaxChildren

\* the attr node's children once the leaf result c is handed up
WithChild(c) == IF attr_result = PyNone THEN Append(attr_children, c) ELSE <<c>>

VisitAttrName ==
    /\ CanAddChild
    /\ \E ch \in NameFrags : attr_children' = WithChild(visit_attr_name(ch))
    /\ attr_result' = PyNone
    /\ UNCHANGED not_attr

VisitTypeName ==
    /\ CanAddChild
    /\ \E ch \in TypeFrags : attr_children' = WithChild(visit_type_name(ch))
    /\ attr_result' = PyNone
    /\ UNCHANGED not_attr

VisitIgnore ==
    /\ CanAddChild
    /\ attr_children' = WithChild(visit_ignore(<<>>))
    /\ attr_result' = PyNone
    /\ UNCHANGED not_attr

VisitId ==
    /\ CanAddChild
    /\ \E ch \in IdKids : attr_children' = WithChild(visit_id(ch))
    /\ attr_result' = PyNone
    /\ UNCHANGED not_attr

\* relrnum is reduced first, then navigation with the relrnum result among its children
VisitNavigationOfAttr ==
    /\ CanAddChild
    /\ \E n \in AttrNavs :
          attr_children' = WithChild(
              visit_navigation(<<Child("relrnum", visit_relrnum(n.rel))>> \o n.target))
    /\ attr_result' = PyNone
    /\ UNCHANGED not_attr

\* an attr node has at least one child (the grammar's attribute line is not empty)
VisitAttr ==
    /\ attr_result = PyNone
    /\ attr_children # <<>>
    /\ attr_result' = visit_attr(attr_children)
    /\ UNCHANGED <<attr_children, not_attr>>

Init ==
    /\ attr_children = <<>>
    /\ attr_result = PyNone
    /\ class_header = PyNone
    /\ lines = <<>>
    /\ block_children = <<>>
    /\ attr_block = PyNone
    /\ method_block = PyNone
    /\ class_block = PyNone
    /\ rname_children = <<>>
    /\ rname_result = PyNone
    /\ side_children = EmptyDict
    /\ shape_children = <<>>
    /\ shape_result = PyNone
    /\ rel_result = PyNone
    /\ item_name = PyNone
    /\ item = PyNone
    /\ meta_lines = <<>>
    /\ meta_children = <<>>
    /\ metadata = PyNone
    /\ relrnum_children = <<>>
    /\ relrnum_result = PyNone
    /\ nav_targets = <<>>
    /\ nav_result = PyNone
    /\ pass_tree = PyNone
    /\ pass_no = 0
    /\ pass_stage = "idle"
    /\ pass_results = <<>>
    /\ header_children = <<>>
    /\ subsys_header = PyNone

NextAttr ==
    \/ VisitAttrName
    \/ VisitTypeName
    \/ VisitIgnore
    \/ VisitId
    \/ VisitNavigationOfAttr
    \/ VisitAttr

SpecAttr == Init /\ [][NextAttr]_vars

(***************************************************************************)
(* visit_attr on Tagged Facts given directly (a synthetic tree): the       *)
(* triples (key, value, is_list) of the data model, and the pairs the      *)
(* scalar reducers return.                                                 *)
(***************************************************************************)
TaggedFacts ==
    { PyTuple(<<"name", sId, FALSE>>), PyTuple(<<"name", sTemp, FALSE>>),
      PyTuple(<<"type", sInt, FALSE>>), PyTuple(<<"ignore", sBang, FALSE>>),
      PyTuple(<<"id", sI, TRUE>>), PyTuple(<<"id", sI2, TRUE>>),
      PyTuple(<<"name", sId>>), PyTuple(<<"name", sTemp>>),
      PyTuple(<<"type", sInt>>), PyTuple(<<"ignore", sBang>>) }

GivenFact ==
    /\ CanAddChild
    /\ \E f \in TaggedFacts : attr_children' = WithChild(f)
    /\ attr_result' = PyNone
    /\ UNCHANGED not_attr

NextFacts ==
    \/ GivenFact
    \/ VisitAttr

SpecFacts == Init /\ [][NextFacts]_vars

(***************************************************************************)
(* Properties of visit_attr                                                *)
(***************************************************************************)
\* the items visit_attr iterates over
AttrFacts == DataList(attr_children)

\* the accumulated dictionary of a returned attribute
AttrOut == attr_result.v[2].v

\* keys carried by list facts (facts with a third element)
ListKeys == { AttrFacts[i].v[1] : i \in { j \in 1..Len(AttrFacts) : Len(AttrFacts[j].v) > 2 } }

\* the values of the list facts of key k, in input order
ListValues(k) ==
    LET sel == SelectSeq(AttrFacts, LAMBDA f : Len(f.v) > 2 /\ f.v[1] = k)
    IN  [i \in 1..Len(sel) |-> sel[i].v[2]]

FirstIndex(x, V) == CHOOSE i \in 1..Len(V) : V[i] = x /\ \A j \in 1..(i - 1) : V[j] # x

\* L is V with every later duplicate removed
IsDedupOf(L, V) ==
    /\ \A i, j \in 1..Len(L) : i # j => L[i] # L[j]
    /\ \A i \in 1..Len(L) : InSeq(L[i], V)
    /\ \A j \in 1..Len(V) : InSeq(V[j], L)
    /\ \A i, j \in 1..Len(L) : i < j => FirstIndex(L[i], V) < FirstIndex(L[j], V)

\* C2: after visit_attr, the list stored under every key carried by list facts
\* is that key's values in input order with later duplicates removed, so its
\* length is the number of distinct values (N distinct identifier markers give
\* an 'id' list of N entries however often they are repeated).
InvC2 ==
    attr_result.t # "none" =>
        /\ attr_result.t = "tuple"
        /\ \A k \in ListKeys :
              /\ k \in DOMAIN AttrOut
              /\ AttrOut[k].t = "list"
              /\ IsDedupOf(AttrOut[k].v, ListValues(k))
              /\ Len(AttrOut[k].v)
                   = Cardinality({ ListValues(k)[i] : i \in 1..Len(ListValues(k)) })

\* an attribute line whose identifier markers I, I2, I gave the id list [I, I2]
WitC2 ==
    /\ attr_result.t = "tuple"
    /\ ListValues("id") = <<sI, sI2, sI>>
    /\ AttrOut["id"] = PyList(<<sI, sI2>>)

C3Triples ==
    <<PyTuple(<<"name", sId, FALSE>>), PyTuple(<<"type", sInt, FALSE>>),
      PyTuple(<<"id", sI, TRUE>>)>>

C3Pairs ==
    <<PyTuple(<<"name", sId>>), PyTuple(<<"type", sInt>>), PyTuple(<<"id", sI, TRUE>>)>>

C3Scalars ==
    PyTuple(<<"attributes", PyDict([name |-> sId, type |-> sInt, id |-> PyList(<<sI>>)])>>)

C3Lists ==
    PyTuple(<<"attributes",
              PyDict([name |-> PyList(<<sId>>), type |-> PyList(<<sInt>>),
                      id |-> PyList(<<sI>>)])>>)

HasFact(k) == \E i \in 1..Len(AttrFacts) : AttrFacts[i].v[1] = k

\* C8 as stated: an attribute line without a 'name' fact, or with neither a
\* 'type' fact nor a navigation fact, ends in MissingRequiredField and no
\* attribute record.
ClaimC8 ==
    (attr_result.t # "none"
        /\ (~HasFact("name") \/ (~HasFact("type") /\ ~HasFact("nav_rnum"))))
    => attr_result = PyRaise("MissingRequiredField")

(***************************************************************************)
(* Class-level reducers                                                    *)
(***************************************************************************)
visit_keyletter(children) == PyDict([k \in {"keyletter"} |-> children[1]])

visit_import(children) == PyDict([k \in {"import"} |-> children[1]])

\* {k: v for d in children for k, v in d.items()}: later children win a shared key
RECURSIVE MergeDicts(_)
MergeDicts(children) ==
    IF children = <<>> THEN EmptyDict
    ELSE DictUnion(MergeDicts(SubSeq(children, 1, Len(children) - 1)),
                   children[Len(children)].v)

visit_class_header(children) == PyDict(MergeDicts(children))

visit_method_block(children) == PyDict([k \in {"methods"} |-> PyList(children)])

\* AttrBlockStep filing every attribute under 'attributes'
AttrBlockStepOneCategory(out, child) ==
    LET value == child.v[2]
        cur == IF "attributes" \in DOMAIN out THEN out["attributes"].v ELSE <<>>
    IN  DictSet(out, "attributes", PyList(Append(cur, value)))

\* AttrBlockStep with the membership test of visit_attr: an attribute equal to
\* one already in the category is not appended
AttrBlockStepDedup(out, child) ==
    LET key == child.v[1]
        value == child.v[2]
        cur == IF key \in DOMAIN out THEN out[key].v ELSE <<>>
    IN  DictSet(out, key, PyList(IF InSeq(value, cur) THEN cur ELSE Append(cur, value)))

\* the loop body of visit_attr_block for one (key, value) child
AttrBlockStep(out, child) ==
    LET key == child.v[1]
        value == child.v[2]
        cur == IF key \in DOMAIN out THEN out[key].v ELSE <<>>
    IN  DictSet(out, key, PyList(Append(cur, value)))

RECURSIVE AttrBlockLoop(_, _)
AttrBlockLoop(out, children) ==
    IF children = <<>> THEN out
    ELSE AttrBlockLoop(AttrBlockStep(out, children[1]), Tail(children))

visit_attr_block(children) == PyDict(AttrBlockLoop(EmptyDict, children))

visit_class_block(children) ==
    IF Len(children) < 2 THEN PyRaise("IndexError")
    ELSE LET class_attrs == DictUnion(children[1].v, children[2].v)
         IN  PyDict(IF Len(children) = 2 THEN class_attrs
                    ELSE DictUnion(class_attrs, children[3].v))

(***************************************************************************)
(* One class: header, attribute lines, attribute block, optional method    *)
(* block, class block, reduced in post-order.                              *)
(***************************************************************************)
sDog == PyStr(<<"D", "o", "g">>)
sD == PyStr(<<"D">>)
sBark == PyStr(<<"b", "a", "r", "k">>)

HeaderKids ==
    { <<visit_class_name(<<sDog>>)>>,
      <<visit_class_name(<<sDog>>), visit_keyletter(<<sD>>)>>,
      <<visit_class_name(<<sOwner>>), visit_import(<<sOwns>>)>> }

\* children of the attr nodes of a class, as the attribute-level reducers return them
ClassLines ==
    { <<visit_attr_name(n), visit_type_name(<<sInt>>)>> : n \in NameFrags }
    \cup { <<visit_attr_name(n), visit_type_name(<<sInt>>), visit_ignore(<<>>)>> :
              n \in NameFrags }
    \cup { <<visit_ignore(<<>>), visit_attr_name(<<sTe, sMp>>)>>,
           <<visit_attr_name(<<sId>>), visit_type_name(<<sInt>>), visit_id(<<sI>>)>> }

VisitClassHeader ==
    /\ class_header = PyNone \/ class_block # PyNone
    /\ \E ch \in HeaderKids : class_header' = visit_class_header(ch)
    /\ lines' = <<>>
    /\ block_children' = <<>>
    /\ attr_block' = PyNone
    /\ method_block' = PyNone
    /\ class_block' = PyNone
    /\ UNCHANGED not_class

VisitAttrLine ==
    /\ class_header # PyNone
    /\ attr_block = PyNone
    /\ class_block = PyNone
    /\ method_block = PyNone
    /\ Len(lines) < MaxLines
    /\ \E ch \in ClassLines :
          /\ lines' = Append(lines, ch)
          /\ block_children' = Append(block_children, visit_attr(ch))
    /\ UNCHANGED <<not_class, class_header, attr_block, method_block, class_block>>

VisitAttrBlock ==
    /\ class_header # PyNone
    /\ attr_block = PyNone
    /\ class_block = PyNone
    /\ method_block = PyNone
    /\ attr_block' = visit_attr_block(block_children)
    /\ UNCHANGED <<not_class, class_header, lines, block_children, method_block,
                   class_block>>

VisitMethodBlock ==
    /\ attr_block # PyNone
    /\ method_block = PyNone
    /\ class_block = PyNone
    /\ \E ch \in { <<sBark>>, <<sBark, sOwns>> } :
          method_block' = visit_method_block(ch)
    /\ UNCHANGED <<not_class, class_header, lines, block_children, attr_block,
                   class_block>>

VisitClassBlock ==
    /\ attr_block # PyNone
    /\ class_block = PyNone
    /\ class_block' = visit_class_block(
           <<class_header, attr_block>>
           \o (IF method_block = PyNone THEN <<>> ELSE <<method_block>>))
    /\ UNCHANGED <<not_class, class_header, lines, block_children, attr_block,
                   method_block>>

NextClass ==
    \/ VisitClassHeader
    \/ VisitAttrLine
    \/ VisitAttrBlock
    \/ VisitMethodBlock
    \/ VisitClassBlock

SpecClass == Init /\ [][NextClass]_vars

(***************************************************************************)
(* Properties of the class assembly                                        *)
(***************************************************************************)
\* attribute line i carried an ignore marker (a child reduced by visit_ignore)
IgnoreMarked(i) ==
    \E j \in 1..Len(lines[i]) : lines[i][j] = visit_ignore(<<>>)

\* the attribute records of the lines from i on whose marking is m, in line order
RECURSIVE LineAttrs(_, _)
LineAttrs(i, m) ==
    IF i > Len(lines) THEN <<>>
    ELSE (IF IgnoreMarked(i) = m THEN <<block_children[i].v[2]>> ELSE <<>>)
         \o LineAttrs(i + 1, m)

\* the collection of a class under a category key, empty when the key is absent
Collection(block, key) == IF key \in DOMAIN block.v THEN block.v[key].v ELSE <<>>

\* C1: in an assembled class, 'attributes' holds exactly the attribute records
\* of the lines without an ignore marker and 'ignore attributes' exactly those
\* of the lines with one, each in line order: a marked line's record is never
\* in 'attributes' and an unmarked line's record never in 'ignore attributes'.
InvC1 ==
    class_block.t = "dict" =>
        /\ Collection(class_block, "attributes") = LineAttrs(1, FALSE)
        /\ Collection(class_block, "ignore attributes") = LineAttrs(1, TRUE)
        /\ ("attributes" \in DOMAIN class_block.v) = (LineAttrs(1, FALSE) # <<>>)
        /\ ("ignore attributes" \in DOMAIN class_block.v) = (LineAttrs(1, TRUE) # <<>>)

\* a class with a marked and an unmarked line of the same name
WitC1 ==
    /\ class_block.t = "dict"
    /\ \E i, j \in 1..Len(lines) :
          /\ IgnoreMarked(i)
          /\ ~IgnoreMarked(j)
          /\ block_children[i].v[2].v["name"] = block_children[j].v[2].v["name"]

(***************************************************************************)
(* Relationship reducers                                                   *)
(***************************************************************************)
\* a parse tree node as far as the reducers read it
Node(rule_name) == [rule_name |-> rule_name]

visit_assoc_class(children) ==
    PyDict([k \in {"assoc_mult", "assoc_cname"} |->
               IF k = "assoc_mult" THEN children[1] ELSE children[2]])

SideData(children) ==
    PyDict([k \in {"phrase", "mult", "cname"} |->
               CASE k = "phrase" -> children[1]
                 [] k = "mult" -> children[2]
                 [] OTHER -> children[3]])

visit_t_side(node, children) == PyDict([k \in {node.rule_name} |-> SideData(children)])

visit_p_side(node, children) == PyDict([k \in {node.rule_name} |-> SideData(children)])

visit_rname(children) == PyDict([k \in {"rnum"} |-> children[1]])

visit_superclass(children) == children[1]

visit_subclass(children) == children[1]

\* visit_gen_rel keeping every child as a subclass
GenRelAllChildren(children) ==
    IF children = <<>> THEN PyRaise("IndexError")
    ELSE PyDict([k \in {"superclass", "subclasses"} |->
                    IF k = "superclass" THEN children[1] ELSE PyList(children)])

visit_gen_rel(children) ==
    IF children = <<>> THEN PyRaise("IndexError")
    ELSE PyDict([k \in {"superclass", "subclasses"} |->
                    IF k = "superclass" THEN children[1]
                    ELSE PyList(SubSeq(children, 2, Len(children)))])

\* visit_binary_rel naming the sides by their position among the children
BinaryRelByPosition(children) ==
    PyDict([k \in {"t_side", "p_side"} |->
               LET d == IF k = "t_side" THEN children[1].v ELSE children[2].v
               IN  d[CHOOSE x \in DOMAIN d : TRUE]])

visit_binary_rel(children) == PyDict(MergeDicts(children))

\* visit_rel merging the other way round: the rnum map's value wins a shared key
RelRnumWins(children) == PyDict(DictUnion(children[2].v, children[1].v))

visit_rel(children) == PyDict(DictUnion(children[1].v, children[2].v))

(***************************************************************************)
(* One relationship: rname, then the sides (and association class) of a    *)
(* binary relationship or the superclass and subclasses of a               *)
(* generalization, then the shape, then visit_rel.                         *)
(***************************************************************************)
sR5 == PyStr(<<"R", "5">>)
sOne == PyStr(<<"1">>)
sMany == PyStr(<<"M">>)
sPet == PyStr(<<"P", "e", "t">>)
sOwned == PyStr(<<"o", "w", "n", "e", "d">>)
sVehicle == PyStr(<<"V", "e", "h", "i", "c", "l", "e">>)
sCar == PyStr(<<"C", "a", "r">>)
sTruck == PyStr(<<"T", "r", "u", "c", "k">>)

SideKids ==
    { <<visit_phrase(<<sOwns>>), sOne, sOwner>>,
      <<visit_phrase(<<sOwned>>), sMany, sPet>> }

VisitRname ==
    /\ rname_result = PyNone \/ rel_result # PyNone
    /\ \E ch \in { <<sR1>>, <<sR5>> } :
          /\ rname_children' = ch
          /\ rname_result' = visit_rname(ch)
    /\ side_children' = EmptyDict
    /\ shape_children' = <<>>
    /\ shape_result' = PyNone
    /\ rel_result' = PyNone
    /\ UNCHANGED not_rel

IsBinary == \A i \in 1..Len(shape_children) :
                shape_children[i].rule \in {"t_side", "p_side", "assoc_class"}

VisitTSide ==
    /\ rname_result # PyNone
    /\ shape_result = PyNone
    /\ IsBinary
    /\ ~HasRule(shape_children, "t_side")
    /\ \E ch \in SideKids :
          /\ side_children' = DictSet(side_children, "t_side", ch)
          /\ shape_children' =
                Append(shape_children, Child("t_side", visit_t_side(Node("t_side"), ch)))
    /\ UNCHANGED <<not_rel, rname_children, rname_result, shape_result,
                   rel_result>>

VisitPSide ==
    /\ rname_result # PyNone
    /\ shape_result = PyNone
    /\ IsBinary
    /\ ~HasRule(shape_children, "p_side")
    /\ \E ch \in SideKids :
          /\ side_children' = DictSet(side_children, "p_side", ch)
          /\ shape_children' =
                Append(shape_children, Child("p_side", visit_p_side(Node("p_side"), ch)))
    /\ UNCHANGED <<not_rel, rname_children, rname_result, shape_result,
                   rel_result>>

VisitAssocClass ==
    /\ rname_result # PyNone
    /\ shape_result = PyNone
    /\ IsBinary
    /\ ~HasRule(shape_children, "assoc_class")
    /\ \E ch \in { <<sMany, sDog>> } :
          shape_children' =
             Append(shape_children, Child("assoc_class", visit_assoc_class(ch)))
    /\ UNCHANGED <<not_rel, rname_children, rname_result, side_children,
                   shape_result, rel_result>>

VisitBinaryRel ==
    /\ shape_result = PyNone
    /\ HasRule(shape_children, "t_side")
    /\ HasRule(shape_children, "p_side")
    /\ shape_result' = visit_binary_rel(Values(shape_children))
    /\ UNCHANGED <<not_rel, rname_children, rname_result, side_children,
                   shape_children, rel_result>>

VisitSuperclass ==
    /\ rname_result # PyNone
    /\ shape_result = PyNone
    /\ shape_children = <<>>
    /\ \E ch \in { <<sVehicle>>, <<sPet>> } :
          shape_children' = <<Child("superclass", visit_superclass(ch))>>
    /\ UNCHANGED <<not_rel, rname_children, rname_result, side_children,
                   shape_result, rel_result>>

VisitSubclass ==
    /\ shape_result = PyNone
    /\ HasRule(shape_children, "superclass")
    /\ Len(shape_children) < 1 + MaxSubclasses
    /\ \E ch \in { <<sCar>>, <<sTruck>> } :
          shape_children' = Append(shape_children, Child("subclass", visit_subclass(ch)))
    /\ UNCHANGED <<not_rel, rname_children, rname_result, side_children,
                   shape_result, rel_result>>

VisitGenRel ==
    /\ shape_result = PyNone
    /\ HasRule(shape_children, "superclass")
    /\ shape_result' = visit_gen_rel(Values(shape_children))
    /\ UNCHANGED <<not_rel, rname_children, rname_result, side_children,
                   shape_children, rel_result>>

VisitRel ==
    /\ shape_result # PyNone
    /\ rel_result = PyNone
    /\ rel_result' = visit_rel(<<rname_result, shape_result>>)
    /\ UNCHANGED <<not_rel, rname_children, rname_result, side_children,
                   shape_children, shape_result>>

NextRel ==
    \/ VisitRname
    \/ VisitTSide
    \/ VisitPSide
    \/ VisitAssocClass
    \/ VisitBinaryRel
    \/ VisitSuperclass
    \/ VisitSubclass
    \/ VisitGenRel
    \/ VisitRel

SpecRel == Init /\ [][NextRel]_vars

(***************************************************************************)
(* Properties of the relationship assembly                                 *)
(***************************************************************************)
Reverse(q) == [i \in 1..Len(q) |-> q[Len(q) + 1 - i]]

\* the side record built from the children handed to the side rule r
SideOf(r) ==
    PyDict([phrase |-> side_children[r][1], mult |-> side_children[r][2],
            cname |-> side_children[r][3]])

BinaryReduced == shape_result # PyNone /\ HasRule(shape_children, "t_side")

\* C4: the result of visit_binary_rel holds under 't_side' the data reduced by
\* the t_side rule and under 'p_side' the data reduced by the p_side rule,
\* wherever the side children stand, and the children in the opposite order
\* give the same result.
InvC4 ==
    BinaryReduced =>
        /\ shape_result.t = "dict"
        /\ shape_result.v["t_side"] = SideOf("t_side")
        /\ shape_result.v["p_side"] = SideOf("p_side")
        /\ visit_binary_rel(Values(Reverse(shape_children))) = shape_result

\* a binary relationship whose p_side child came before its t_side child and
\* whose sides differ
WitC4 ==
    /\ BinaryReduced
    /\ shape_children[1].rule = "p_side"
    /\ SideOf("t_side") # SideOf("p_side")

GenReduced == shape_result # PyNone /\ HasRule(shape_children, "superclass")

\* the subclasses handed to the gen_rel node, in order
Subclasses == RuleResults(shape_children, "subclass")

\* C5: for a generalization with relationship number r, superclass s and a
\* non-empty list of subclasses L, visit_rel of the rname result and the
\* visit_gen_rel result is exactly {rnum: r, superclass: s, subclasses: L}.
InvC5 ==
    (rel_result # PyNone /\ GenReduced /\ Subclasses # <<>>) =>
        rel_result = PyDict([rnum |-> rname_children[1],
                             superclass |-> RuleResults(shape_children, "superclass")[1],
                             subclasses |-> PyList(Subclasses)])

\* R5, Vehicle, [Car, Truck]
WitC5 ==
    /\ rel_result = PyDict([rnum |-> sR5, superclass |-> sVehicle,
                            subclasses |-> PyList(<<sCar, sTruck>>)])
    /\ Subclasses = <<sCar, sTruck>>

\* C10 as stated: a generalization reduced with zero subclasses is reported as
\* EmptySubclassList, and every record visit_gen_rel returns has a non-empty
\* subclasses list.
ClaimC10 ==
    GenReduced =>
        /\ Subclasses = <<>> => shape_result = PyRaise("EmptySubclassList")
        /\ shape_result.t = "dict" => shape_result.v["subclasses"].v # <<>>

(***************************************************************************)
(* Metadata reducers                                                       *)
(***************************************************************************)
\* visit_resource_item tagging its value as plain text
ResourceItemUntagged(children) == PyTuple(<<Join(children), FALSE>>)

visit_text_item(children) == PyTuple(<<children[1], FALSE>>)

visit_resource_item(children) == PyTuple(<<Join(children), TRUE>>)

visit_item_name(children) == Join(children)

visit_data_item(children) == PyDict([k \in {children[1]} |-> children[2]])

\* visit_metadata keeping the first value of a repeated key
MetadataFirstWins(children) == PyDict(MergeDicts(Reverse(children)))

visit_metadata(children) == PyDict(MergeDicts(children))

(***************************************************************************)
(* One metadata section: per line the item name, then the text or          *)
(* resource item, then the data item; visit_metadata folds the lines.      *)
(***************************************************************************)
sAuthor == PyStr(<<"A", "u", "t", "h", "o", "r">>)
sTitle == PyStr(<<"T", "i", "t", "l", "e">>)
sAnn == PyStr(<<"A", "n", "n">>)
sBob == PyStr(<<"B", "o", "b">>)
sBo == PyStr(<<"B", "o">>)
sB == PyStr(<<"b">>)

VisitItemName ==
    /\ item_name = PyNone
    /\ metadata # PyNone \/ Len(meta_children) < MaxPairs
    /\ \E ch \in { <<sAuthor>>, <<sTitle>> } : item_name' = visit_item_name(ch)
    /\ IF metadata # PyNone
       THEN meta_lines' = <<>> /\ meta_children' = <<>> /\ metadata' = PyNone
       ELSE UNCHANGED <<meta_lines, meta_children, metadata>>
    /\ UNCHANGED <<not_meta, item>>

VisitTextItem ==
    /\ item_name # PyNone
    /\ item = PyNone
    /\ \E ch \in { <<sAnn>>, <<sBob>> } : item' = Child("text_item", visit_text_item(ch))
    /\ UNCHANGED <<not_meta, item_name, meta_lines, meta_children,
                   metadata>>

VisitResourceItem ==
    /\ item_name # PyNone
    /\ item = PyNone
    /\ \E ch \in { <<sAnn>>, <<sBo, sB>> } :
          item' = Child("resource_item", visit_resource_item(ch))
    /\ UNCHANGED <<not_meta, item_name, meta_lines, meta_children,
                   metadata>>

VisitDataItem ==
    /\ item_name # PyNone
    /\ item # PyNone
    /\ meta_lines' = Append(meta_lines, <<Child("item_name", item_name), item>>)
    /\ meta_children' = Append(meta_children, visit_data_item(<<item_name, item.val>>))
    /\ item_name' = PyNone
    /\ item' = PyNone
    /\ UNCHANGED <<not_meta, metadata>>

VisitMetadata ==
    /\ metadata = PyNone
    /\ item_name = PyNone
    /\ metadata' = visit_metadata(meta_children)
    /\ UNCHANGED <<not_meta, item_name, item, meta_lines,
                   meta_children>>

NextMeta ==
    \/ VisitItemName
    \/ VisitTextItem
    \/ VisitResourceItem
    \/ VisitDataItem
    \/ VisitMetadata

SpecMeta == Init /\ [][NextMeta]_vars

(***************************************************************************)
(* Properties of the metadata assembly                                     *)
(***************************************************************************)
LineKey(i) == meta_lines[i][1].val
LineValue(i) == meta_lines[i][2].val
LineRule(i) == meta_lines[i][2].rule

\* the last line, in source order, that carries key k
LastLine(k) ==
    CHOOSE i \in 1..Len(meta_lines) :
        /\ LineKey(i) = k
        /\ \A j \in (i + 1)..Len(meta_lines) : LineKey(j) # k

\* C6: the mapping folded by visit_metadata has one entry per distinct key of
\* the lines, and each key's value is the value of the last line carrying it.
InvC6 ==
    metadata # PyNone =>
        /\ metadata.t = "dict"
        /\ DOMAIN metadata.v = { LineKey(i) : i \in 1..Len(meta_lines) }
        /\ \A k \in DOMAIN metadata.v : metadata.v[k] = LineValue(LastLine(k))

\* two lines share a key with different values and the second one is kept
WitC6 ==
    /\ metadata # PyNone
    /\ \E i, j \in 1..Len(meta_lines) :
          /\ i < j
          /\ LineKey(i) = LineKey(j)
          /\ LineValue(i) # LineValue(j)
          /\ LastLine(LineKey(j)) = j
          /\ metadata.v[LineKey(j)] = LineValue(j)

\* C7: every value of the mapping is tagged as a resource exactly when the
\* retained (last) line of its key was reduced by the resource-item rule and as
\* plain text exactly when it was reduced by the text-item rule, also when a
\* later line overwrote the key.
InvC7 ==
    metadata # PyNone =>
        \A k \in DOMAIN metadata.v :
            /\ metadata.v[k].v[2] \in BOOLEAN
            /\ metadata.v[k].v[2] = (LineRule(LastLine(k)) = "resource_item")
            /\ (~metadata.v[k].v[2]) = (LineRule(LastLine(k)) = "text_item")

\* a key first given as text is overwritten by a resource line and is tagged resource
WitC7 ==
    /\ metadata # PyNone
    /\ \E i, j \in 1..Len(meta_lines) :
          /\ i < j
          /\ LineKey(i) = LineKey(j)
          /\ LineRule(i) = "text_item"
          /\ LineRule(j) = "resource_item"
          /\ LastLine(LineKey(j)) = j
          /\ metadata.v[LineKey(j)].v[2] = TRUE

(***************************************************************************)
(* One navigation: relrnum is reduced, then the target children, then      *)
(* visit_navigation, which appends to the relrnum result in place.         *)
(***************************************************************************)
sNames == PyStr(<<"n", "a", "m", "e", "s">>)
sSurname == PyStr(<<"S", "u", "r", "n", "a", "m", "e">>)

VisitRelrnum ==
    /\ relrnum_result = PyNone \/ nav_result # PyNone
    /\ \E r \in {sR1, sR2}, u, c, a \in BOOLEAN :
          /\ relrnum_children' = RelKids(r, u, c, a)
          /\ relrnum_result' = visit_relrnum(RelKids(r, u, c, a))
    /\ nav_targets' = <<>>
    /\ nav_result' = PyNone
    /\ UNCHANGED not_nav

CanAddTarget(rule) ==
    /\ relrnum_result # PyNone
    /\ nav_result = PyNone
    /\ ~HasRule(nav_targets, rule)

VisitPhrase ==
    /\ CanAddTarget("phrase")
    /\ \E ch \in { <<sOwns>>, <<sNames>> } :
          nav_targets' = Append(nav_targets, Child("phrase", visit_phrase(ch)))
    /\ UNCHANGED <<not_nav, relrnum_children,
                   relrnum_result, nav_result>>

VisitClassName ==
    /\ CanAddTarget("class_name")
    /\ \E ch \in { <<sOwner>> } :
          nav_targets' = Append(nav_targets, Child("class_name", visit_class_name(ch)))
    /\ UNCHANGED <<not_nav, relrnum_children,
                   relrnum_result, nav_result>>

VisitAttrRefName ==
    /\ CanAddTarget("attr_ref_name")
    /\ \E ch \in { <<sId>>, <<sSurname>> } :
          nav_targets' =
             Append(nav_targets, Child("attr_ref_name", visit_attr_ref_name(ch)))
    /\ UNCHANGED <<not_nav, relrnum_children,
                   relrnum_result, nav_result>>

\* the children of the navigation node: the relrnum list object and the targets
NavChildren == <<Child("relrnum", relrnum_result)>> \o nav_targets

\* out is the relrnum child's list itself: when visit_navigation returns, that
\* list holds the appended nav_rnum fact too
VisitNavigation ==
    /\ relrnum_result # PyNone
    /\ nav_result = PyNone
    /\ nav_result' = visit_navigation(NavChildren)
    /\ relrnum_result' = IF visit_navigation(NavChildren).t = "raise"
                         THEN relrnum_result
                         ELSE visit_navigation(NavChildren)
    /\ UNCHANGED <<not_nav, relrnum_children,
                   nav_targets>>

NextNav ==
    \/ VisitRelrnum
    \/ VisitPhrase
    \/ VisitClassName
    \/ VisitAttrRefName
    \/ VisitNavigation

SpecNav == Init /\ [][NextNav]_vars

(***************************************************************************)
(* Properties of the navigation assembly                                   *)
(***************************************************************************)
\* the navigation record: the data of the nav_rnum fact, last in the returned list
NavRecord == nav_result.v[Len(nav_result.v)].v[2]

TargetKeys == {"phrase", "class", "ref_name"}

\* the target keys present in the navigation record
RecordTargets == TargetKeys \cap DOMAIN NavRecord.v

\* the target facts present among the navigation node's children
TargetFacts == { r \in {"phrase", "class_name", "attr_ref_name"} : HasRule(nav_targets, r) }

Trees ==
    { [name |-> n, ids |-> i, rel |-> RelKids(r, u, c, FALSE), target |-> t] :
        n \in NameFrags,
        i \in { <<>> } \cup { <<visit_id(ch)>> : ch \in IdKids },
        r \in {sR1, sR2}, u \in BOOLEAN, c \in BOOLEAN,
        t \in { <<Child("phrase", visit_phrase(<<sOwns>>))>>,
                <<Child("class_name", visit_class_name(<<sOwner>>))>>,
                <<Child("attr_ref_name", visit_attr_ref_name(<<sId>>))>> } }

\* pass_results with the result r of one more node of the current compilation
Recorded(r) ==
    IF Len(pass_results) < pass_no THEN Append(pass_results, <<r>>)
    ELSE [pass_results EXCEPT ![pass_no] = Append(@, r)]

CompileTree ==
    /\ pass_no = 0
    /\ \E tree \in Trees : pass_tree' = tree
    /\ pass_no' = 1
    /\ pass_stage' = "relrnum"
    /\ UNCHANGED <<header_vars, attr_vars, class_vars, rel_vars, meta_vars, nav_vars, pass_results>>

PassRelrnum ==
    /\ pass_stage = "relrnum"
    /\ relrnum_children' = pass_tree.rel
    /\ relrnum_result' = visit_relrnum(pass_tree.rel)
    /\ pass_results' = Recorded(visit_relrnum(pass_tree.rel))
    /\ pass_stage' = "navigation"
    /\ UNCHANGED <<header_vars, attr_vars, class_vars, rel_vars, meta_vars, nav_targets, nav_result,
                   pass_tree, pass_no>>

PassNavigation ==
    /\ pass_stage = "navigation"
    /\ nav_targets' = pass_tree.target
    /\ nav_result' =
          visit_navigation(<<Child("relrnum", relrnum_result)>> \o pass_tree.target)
    /\ relrnum_result' =
          visit_navigation(<<Child("relrnum", relrnum_result)>> \o pass_tree.target)
    /\ pass_results' = Recorded(
          visit_navigation(<<Child("relrnum", relrnum_result)>> \o pass_tree.target))
    /\ pass_stage' = "attr"
    /\ UNCHANGED <<header_vars, attr_vars, class_vars, rel_vars, meta_vars, relrnum_children,
                   pass_tree, pass_no>>

\* the children of the attr node of the tree: name, identifier markers, navigation
PassAttrChildren == <<visit_attr_name(pass_tree.name)>> \o pass_tree.ids \o <<nav_result>>

PassAttr ==
    /\ pass_stage = "attr"
    /\ attr_children' = PassAttrChildren
    /\ attr_result' = visit_attr(PassAttrChildren)
    /\ pass_results' = Recorded(visit_attr(PassAttrChildren))
    /\ pass_stage' = "done"
    /\ UNCHANGED <<header_vars, class_vars, rel_vars, meta_vars, nav_vars, pass_tree, pass_no>>

CompileAgain ==
    /\ pass_stage = "done"
    /\ pass_no = 1
    /\ pass_no' = 2
    /\ pass_stage' = "relrnum"
    /\ UNCHANGED <<header_vars, attr_vars, class_vars, rel_vars, meta_vars, nav_vars, pass_tree,
                   pass_results>>

NextTwice ==
    \/ CompileTree
    \/ PassRelrnum
    \/ PassNavigation
    \/ PassAttr
    \/ CompileAgain

SpecTwice == Init /\ [][NextTwice]_vars

ClaimC12 ==
    (nav_result # PyNone /\ Len(nav_targets) = 1) =>
        /\ nav_result.t = "list"
        /\ HasRule(nav_targets, "phrase") =>
              NavRecord.v["phrase"] = RuleResults(nav_targets, "phrase")[1]
        /\ HasRule(nav_targets, "attr_ref_name") =>
              NavRecord.v["ref_name"] = RuleResults(nav_targets, "attr_ref_name")[1]
        /\ HasRule(nav_targets, "class_name") =>
              NavRecord.v["class"] = RuleResults(nav_targets, "class_name")[1].v["name"]

(***************************************************************************)
(* visit_rel on an rnum map and any shape map, also one that has a key of  *)
(* the rnum map.                                                           *)
(***************************************************************************)
ShapeKeys == {"rnum", "superclass", "t_side"}

ShapeMaps ==
    { PyDict(f) : f \in UNION { [K -> {sR2, sVehicle, sCar}] : K \in SUBSET ShapeKeys } }

GivenShapeMap ==
    /\ rname_result # PyNone
    /\ shape_result = PyNone
    /\ \E m \in ShapeMaps : shape_result' = m
    /\ UNCHANGED <<not_rel, rname_children, rname_result, side_children,
                   shape_children, rel_result>>

NextRelMaps ==
    \/ VisitRname
    \/ GivenShapeMap
    \/ VisitRel

SpecRelMaps == Init /\ [][NextRelMaps]_vars

\* C13: the map visit_rel returns has exactly the keys of the rnum map and of
\* the shape map, on one level; a key of the shape map has the shape map's
\* value, also when the rnum map has that key, and every other key has the
\* rnum map's value.
InvC13 ==
    rel_result # PyNone =>
        /\ rel_result.t = "dict"
        /\ DOMAIN rel_result.v = DOMAIN rname_result.v \cup DOMAIN shape_result.v
        /\ \A k \in DOMAIN shape_result.v : rel_result.v[k] = shape_result.v[k]
        /\ \A k \in DOMAIN rname_result.v \ DOMAIN shape_result.v :
              rel_result.v[k] = rname_result.v[k]

\* both maps had 'rnum' with different values and the result has the shape map's
WitC13 ==
    /\ rel_result # PyNone
    /\ rname_result.v["rnum"] = sR1
    /\ "rnum" \in DOMAIN shape_result.v
    /\ shape_result.v["rnum"] = sR2
    /\ rel_result.v["rnum"] = sR2
    /\ "superclass" \in DOMAIN rel_result.v

\* the target children of the navigation node in the opposite order
TargetsReversed == [i \in 1..Len(nav_targets) |-> nav_targets[Len(nav_targets) + 1 - i]]

\* the record visit_navigation makes from a new relrnum list and the targets ts
RecordOf(ts) ==
    LET out == visit_navigation(<<Child("relrnum", visit_relrnum(relrnum_children))>> \o ts)
    IN  out.v[Len(out.v)].v[2]

\* C14: in a record visit_navigation returned, 'phrase' is present exactly when
\* a phrase fact is among the node's children, 'class' exactly when a
\* class_name fact is, 'ref_name' exactly when an attr_ref_name fact is, each
\* whatever the other children are; and the children in the opposite order
\* give the same record.
InvC14 ==
    (nav_result # PyNone /\ nav_result.t = "list") =>
        /\ ("phrase" \in DOMAIN NavRecord.v) <=> HasRule(nav_targets, "phrase")
        /\ ("class" \in DOMAIN NavRecord.v) <=> HasRule(nav_targets, "class_name")
        /\ ("ref_name" \in DOMAIN NavRecord.v) <=> HasRule(nav_targets, "attr_ref_name")
        /\ \A k \in DOMAIN NavRecord.v : k \in TargetKeys \cup {"rnum"}
        /\ RecordOf(TargetsReversed) = NavRecord

\* a class_name fact came before a phrase fact, the relrnum had a union marker
\* and its own attribute reference: the record has 'class' and 'phrase' and no
\* 'ref_name'
WitC14 ==
    /\ nav_result # PyNone
    /\ nav_result.t = "list"
    /\ Len(nav_targets) = 2
    /\ nav_targets[1].rule = "class_name"
    /\ nav_targets[2].rule = "phrase"
    /\ HasRule(relrnum_children, "union")
    /\ HasRule(relrnum_children, "attr_ref_name")
    /\ DOMAIN NavRecord.v = {"rnum", "class", "phrase"}

\* C15: every record visit_navigation returns has the key 'rnum', and its value
\* is the relationship number the relrnum node was reduced from, whichever
\* targets and whichever union, constrained and attribute-reference markers
\* there are.
InvC15 ==
    (nav_result # PyNone /\ nav_result.t = "list") =>
        /\ "rnum" \in DOMAIN NavRecord.v
        /\ NavRecord.v["rnum"] = RuleResults(relrnum_children, "rnum")[1]

\* relationship R2 with union and constrained markers and its own attribute
\* reference, navigated by class name: the record has rnum R2
WitC15 ==
    /\ nav_result # PyNone
    /\ nav_result.t = "list"
    /\ HasRule(relrnum_children, "union")
    /\ HasRule(relrnum_children, "constrained")
    /\ HasRule(relrnum_children, "attr_ref_name")
    /\ HasRule(nav_targets, "class_name")
    /\ NavRecord.v["rnum"] = sR2

\* the attribute of the compiled tree has been assembled
TreeCompiled == pass_stage = "done" /\ attr_result.t = "tuple"

\* C16 as stated: the attribute assembled from a navigation always has a union
\* field and a constrained field, true exactly when the marker was under
\* relrnum and an explicit false, not a missing field, when it was not.
ClaimC16 ==
    TreeCompiled =>
        /\ "union_rnum" \in DOMAIN AttrOut
        /\ "constrained_rnum" \in DOMAIN AttrOut
        /\ AttrOut["union_rnum"] = [t |-> "bool", v |-> HasRule(pass_tree.rel, "union")]
        /\ AttrOut["constrained_rnum"] =
              [t |-> "bool", v |-> HasRule(pass_tree.rel, "constrained")]

\* C16 amended: for each of the four combinations of the markers, the attribute
\* assembled has the field 'union_rnum' exactly when the union marker was under
\* relrnum and the field 'constrained_rnum' exactly when the constrained marker
\* was, each independently of the other; a field that is present is the list of
\* the relationship number, and for an absent marker the field is missing and
\* no false is stored.
InvC16 ==
    TreeCompiled =>
        /\ ("union_rnum" \in DOMAIN AttrOut) <=> HasRule(pass_tree.rel, "union")
        /\ ("constrained_rnum" \in DOMAIN AttrOut) <=> HasRule(pass_tree.rel, "constrained")
        /\ \A k \in {"union_rnum", "constrained_rnum"} \cap DOMAIN AttrOut :
              AttrOut[k] = PyList(<<RuleResults(pass_tree.rel, "rnum")[1]>>)
        /\ \A k \in DOMAIN AttrOut : AttrOut[k].t # "bool"

\* a constrained marker without a union marker: the attribute has
\* 'constrained_rnum' and no 'union_rnum'
WitC16 ==
    /\ TreeCompiled
    /\ HasRule(pass_tree.rel, "constrained")
    /\ ~HasRule(pass_tree.rel, "union")
    /\ "constrained_rnum" \in DOMAIN AttrOut
    /\ "union_rnum" \notin DOMAIN AttrOut

\* C17 as stated: in an assembled class no two entries of 'attributes' have the
\* same name, whatever the attribute lines were.
ClaimC17 ==
    class_block.t = "dict" =>
        LET attrs == Collection(class_block, "attributes")
        IN  \A i, j \in 1..Len(attrs) :
               (i # j /\ "name" \in DOMAIN attrs[i].v /\ "name" \in DOMAIN attrs[j].v)
                  => attrs[i].v["name"] # attrs[j].v["name"]

\* the values of the list field k of a returned attribute, none when it is absent
AttrList(k) == IF k \in DOMAIN AttrOut THEN AttrOut[k].v ELSE <<>>

\* C18: in every attribute visit_attr returns, each value of 'constrained_id' is
\* also a value of 'id'; and in every list of facts among the children, a
\* 'constrained_id' fact has an 'id' fact of the same identifier beside it.
InvC18 ==
    /\ attr_result.t = "tuple" =>
          \A i \in 1..Len(AttrList("constrained_id")) :
             InSeq(AttrList("constrained_id")[i], AttrList("id"))
    /\ \A c \in 1..Len(attr_children) :
          attr_children[c].t = "list" =>
             \A i \in 1..Len(attr_children[c].v) :
                attr_children[c].v[i].v[1] = "constrained_id" =>
                   \E j \in 1..Len(attr_children[c].v) :
                      /\ attr_children[c].v[j].v[1] = "id"
                      /\ attr_children[c].v[j].v[2] = attr_children[c].v[i].v[2]

\* identifier I plain, then I2 constrained, then I2 constrained once more
WitC18 ==
    /\ attr_result.t = "tuple"
    /\ AttrList("id") = <<sI, sI2>>
    /\ AttrList("constrained_id") = <<sI2>>
    /\ attr_children = <<visit_id(<<sI>>), visit_id(<<sI2, sC>>), visit_id(<<sI2, sC>>)>>

\* C19 as stated: after visit_navigation returned, the result of the relrnum
\* child is what visit_relrnum made of its children, same length and content,
\* and visit_navigation applied once more to the same children gives a result
\* equal to the first.
ClaimC19 ==
    (nav_result # PyNone /\ nav_result.t = "list") =>
        /\ Len(relrnum_result.v) = Len(visit_relrnum(relrnum_children).v)
        /\ relrnum_result = visit_relrnum(relrnum_children)
        /\ visit_navigation(NavChildren) = nav_result

\* the keys of the facts, the ignore marker apart
FactKeys == { AttrFacts[i].v[1] : i \in 1..Len(AttrFacts) } \ {"ignore"}

\* the last fact of key k
LastFact(k) ==
    AttrFacts[CHOOSE i \in 1..Len(AttrFacts) :
                 /\ AttrFacts[i].v[1] = k
                 /\ \A j \in (i + 1)..Len(AttrFacts) : AttrFacts[j].v[1] # k]

\* the facts of key k whose third element is FALSE
FalseFacts(k) ==
    SelectSeq(AttrFacts, LAMBDA f : f.v[1] = k /\ Len(f.v) > 2 /\ f.v[3] = FALSE)

AllPacked(k) == \A i \in 1..Len(AttrFacts) : AttrFacts[i].v[1] = k => Len(AttrFacts[i].v) > 2

IgnoreAt == { i \in 1..Len(attr_children) : attr_children[i] = visit_ignore(<<>>) }

\* C21: the category visit_attr returns is 'ignore attributes' exactly when the
\* fact of visit_ignore is among the children, at whatever position, and
\* 'attributes' otherwise; the attribute record never has a field 'ignore'.
InvC21 ==
    attr_result.t = "tuple" =>
        /\ IgnoreAt # {} => attr_result.v[1] = "ignore attributes"
        /\ IgnoreAt = {} => attr_result.v[1] = "attributes"
        /\ "ignore" \notin DOMAIN AttrOut

\* the ignore marker between the name and the type of a line
WitC21 ==
    /\ attr_result.t = "tuple"
    /\ Len(attr_children) = 3
    /\ IgnoreAt = {2}
    /\ attr_result.v[1] = "ignore attributes"
    /\ DOMAIN AttrOut = {"name", "type"}

(***************************************************************************)
(* Subsystem header: name, optional abbreviation, domain name              *)
(***************************************************************************)
visit_icaps_name(children) == Join(children)

\* visit_subsystem_header taking the second child as abbreviation whatever the
\* number of children
SubsystemHeaderSecondChild(children) ==
    IF Len(children) < 2 THEN PyRaise("IndexError")
    ELSE PyDict([subsys_name |-> children[1], abbr |-> children[2],
                 domain_name |-> children[Len(children)]])

visit_subsystem_header(children) ==
    IF Len(children) < 2 THEN PyRaise("IndexError")
    ELSE PyDict([subsys_name |-> children[1],
                 abbr |-> IF Len(children) = 2 THEN PyNone ELSE children[2],
                 domain_name |-> children[Len(children)]])

SubsysNameFrags == { <<sDog>>, <<sPet>>, <<sTe, sMp>>, <<sOwner>> }

DomainNameFrags == { <<sVehicle>>, <<sPet>>, <<sCar>>, <<sTe, sMp>> }

Abbrs == { sD, sB, sPet }

VisitSubsysName ==
    /\ header_children = <<>> \/ subsys_header # PyNone
    /\ \E ch \in SubsysNameFrags :
          header_children' = <<Child("subsys_name", visit_icaps_name(ch))>>
    /\ subsys_header' = PyNone
    /\ UNCHANGED not_header

VisitAbbr ==
    /\ Len(header_children) = 1
    /\ \E a \in Abbrs : header_children' = Append(header_children, Child("abbr", a))
    /\ UNCHANGED <<not_header, subsys_header>>

VisitDomainName ==
    /\ header_children # <<>>
    /\ ~HasRule(header_children, "domain_name")
    /\ \E ch \in DomainNameFrags :
          header_children' =
             Append(header_children, Child("domain_name", visit_icaps_name(ch)))
    /\ UNCHANGED <<not_header, subsys_header>>

VisitSubsystemHeader ==
    /\ HasRule(header_children, "domain_name")
    /\ subsys_header = PyNone
    /\ subsys_header' = visit_subsystem_header(Values(header_children))
    /\ UNCHANGED <<not_header, header_children>>

NextHeader ==
    \/ VisitSubsysName
    \/ VisitAbbr
    \/ VisitDomainName
    \/ VisitSubsystemHeader

SpecHeader == Init /\ [][NextHeader]_vars

\* C22: for every header, with or without abbreviation, visit_subsystem_header
\* does not raise and returns the first child as 'subsys_name' and the last
\* child as 'domain_name'; 'abbr' is None exactly when the header has no
\* abbreviation child and is that child otherwise.
InvC22 ==
    subsys_header # PyNone =>
        /\ subsys_header.t = "dict"
        /\ DOMAIN subsys_header.v = {"subsys_name", "abbr", "domain_name"}
        /\ subsys_header.v["subsys_name"] = header_children[1].val
        /\ subsys_header.v["domain_name"] = header_children[Len(header_children)].val
        /\ subsys_header.v["domain_name"] = RuleResults(header_children, "domain_name")[1]
        /\ (subsys_header.v["abbr"] = PyNone) <=> ~HasRule(header_children, "abbr")
        /\ HasRule(header_children, "abbr") =>
              subsys_header.v["abbr"] = RuleResults(header_children, "abbr")[1]

\* a header without abbreviation whose name and domain name are the same text
WitC22 ==
    /\ subsys_header # PyNone
    /\ Len(header_children) = 2
    /\ subsys_header.v["subsys_name"] = sPet
    /\ subsys_header.v["domain_name"] = sPet
    /\ subsys_header.v["abbr"] = PyNone

(***************************************************************************)
(* visit_class_block on every combination of present and absent blocks:    *)
(* the header alone, with the attribute block, with the method block, or   *)
(* with both.                                                              *)
(***************************************************************************)
VisitMethodBlockAlone ==
    /\ class_header # PyNone
    /\ attr_block = PyNone
    /\ lines = <<>>
    /\ method_block = PyNone
    /\ class_block = PyNone
    /\ \E ch \in { <<sBark>>, <<sBark, sOwns>> } :
          method_block' = visit_method_block(ch)
    /\ UNCHANGED <<not_class, class_header, lines, block_children, attr_block,
                   class_block>>

\* the children of the class_block node: the header and the blocks that are there
ClassBlockParts ==
    <<class_header>>
    \o (IF attr_block = PyNone THEN <<>> ELSE <<attr_block>>)
    \o (IF method_block = PyNone THEN <<>> ELSE <<method_block>>)

VisitClassBlockParts ==
    /\ class_header # PyNone
    /\ lines = <<>> \/ attr_block # PyNone
    /\ class_block = PyNone
    /\ class_block' = visit_class_block(ClassBlockParts)
    /\ UNCHANGED <<not_class, class_header, lines, block_children, attr_block,
                   method_block>>

NextClassParts ==
    \/ VisitClassHeader
    \/ VisitAttrLine
    \/ VisitAttrBlock
    \/ VisitMethodBlock
    \/ VisitMethodBlockAlone
    \/ VisitClassBlockParts

SpecClassParts == Init /\ [][NextClassParts]_vars

\* C23 as stated: visit_class_block does not raise, whether or not the
\* attribute block and the method block are there; its result has exactly the
\* keys of the header, the categories of the attribute block and, exactly when
\* a method block is there, 'methods', each with the value it had.
ClaimC23 ==
    class_block # PyNone =>
        /\ class_block.t = "dict"
        /\ DOMAIN class_block.v =
              DOMAIN class_header.v
              \cup (IF attr_block = PyNone THEN {} ELSE DOMAIN attr_block.v)
              \cup (IF method_block = PyNone THEN {} ELSE {"methods"})
        /\ \A k \in DOMAIN class_header.v : class_block.v[k] = class_header.v[k]
        /\ attr_block # PyNone =>
              \A k \in DOMAIN attr_block.v : class_block.v[k] = attr_block.v[k]
        /\ method_block # PyNone => class_block.v["methods"] = method_block.v["methods"]

\* the attributes of the (category, attribute) children whose category is k, in
\* input order
OfCategory(k) ==
    LET sel == SelectSeq(block_children, LAMBDA c : c.v[1] = k)
    IN  [i \in 1..Len(sel) |-> sel[i].v[2]]

\* C24: the block visit_attr_block returns has one list per category that
\* occurs among its children; the list of a category is the attributes of the
\* children of that category in input order, equal ones included, and the
\* lengths of the lists add up to the number of children.
InvC24 ==
    attr_block.t = "dict" =>
        /\ DOMAIN attr_block.v = { block_children[i].v[1] : i \in 1..Len(block_children) }
        /\ \A k \in DOMAIN attr_block.v :
              /\ attr_block.v[k].t = "list"
              /\ attr_block.v[k].v = OfCategory(k)
        /\ Len(Collection(attr_block, "attributes"))
              + Len(Collection(attr_block, "ignore attributes")) = Len(block_children)

\* two equal normal attributes with an ignored one between them
WitC24 ==
    /\ attr_block.t = "dict"
    /\ Len(block_children) = 3
    /\ block_children[1] = block_children[3]
    /\ block_children[1].v[1] = "attributes"
    /\ block_children[2].v[1] = "ignore attributes"
    /\ Len(attr_block.v["attributes"].v) = 2
    /\ Len(attr_block.v["ignore attributes"].v) = 1

ScalarKeys == {"name", "type", "ignore"}

ListFactKeys ==
    {"id", "constrained_id", "rnum", "union_rnum", "constrained_rnum", "ref_name", "nav_rnum"}

\* the facts of the attribute line, written with two elements or with three
PairFacts == SelectSeq(AttrFacts, LAMBDA f : Len(f.v) = 2)
PackedFacts == SelectSeq(AttrFacts, LAMBDA f : Len(f.v) > 2)

\* C25: visit_attr returns for every line made of the results of
\* visit_attr_name, visit_type_name, visit_ignore, visit_id and
\* visit_navigation, in any combination and order.  The two-element facts have
\* the keys name, type, ignore and the three-element facts the keys id,
\* constrained_id, rnum, union_rnum, constrained_rnum, ref_name, nav_rnum, so no
\* field is written both ways: a scalar field is text and a list field a list.
\* A line with an identifier marker and a navigation has the identifier in
\* 'id' and the navigation record in 'nav_rnum'.
InvC25 ==
    attr_result # PyNone =>
        /\ attr_result.t = "tuple"
        /\ \A i \in 1..Len(PairFacts) : PairFacts[i].v[1] \in ScalarKeys
        /\ \A i \in 1..Len(PackedFacts) : PackedFacts[i].v[1] \in ListFactKeys
        /\ \A k \in DOMAIN AttrOut :
              /\ k \in (ScalarKeys \ {"ignore"}) \cup ListFactKeys
              /\ k \in ScalarKeys => AttrOut[k].t = "str"
              /\ k \in ListFactKeys => AttrOut[k].t = "list"
        /\ \A i \in 1..Len(PackedFacts) :
              PackedFacts[i].v[1] \in {"id", "nav_rnum"} =>
                 InSeq(PackedFacts[i].v[2], AttrList(PackedFacts[i].v[1]))

\* a name, a constrained identifier marker and a navigation by attribute
\* reference on one line
WitC25 ==
    /\ attr_result.t = "tuple"
    /\ Len(attr_children) = 3
    /\ attr_children[2] = visit_id(<<sI2, sC>>)
    /\ AttrList("id") = <<sI2>>
    /\ Len(AttrList("nav_rnum")) = 1
    /\ "ref_name" \in DOMAIN AttrList("nav_rnum")[1].v
    /\ "ref_name" \in DOMAIN AttrOut
    /\ "name" \in DOMAIN AttrOut

====
